---------------------------- MODULE Spec2Model ----------------------------
(***************************************************************************)
(* Model of the backup server of arielchook/dpmmn14:                      *)
(*   src/main.cpp            accept loop, one detached thread per socket   *)
(*   src/RequestHandler.cpp  session loop, the four handlers, the three    *)
(*                           response encoders, readBytes / sendBytes      *)
(*                                                                         *)
(* The wire is modelled byte by byte (little-endian packed structs, as the *)
(* code memcpy's them on its x86 target).  The filesystem is a map from    *)
(* resolved paths (sequences of components below the drive root) to nodes. *)
(* Path resolution follows the target platform of BASE_BACKUP_PATH         *)
(* ("C:\\backupsvr"): a name that starts with a separator is resolved from *)
(* the drive root, "." and empty components are dropped and ".." removes   *)
(* the component before it.                                                *)
(***************************************************************************)
EXTENDS Integers, Sequences, FiniteSets, TLC

(***************************************************************************)
(* Bounds of the model.                                                    *)
(***************************************************************************)
\* CHUNK_SIZE of src/RequestHandler.cpp:19 is 4096.  The model scales it
\* down (and the payload lengths with it, see PayloadLens) so that payloads
\* below, at and above the chunk size are explored byte by byte.
CHUNK_SIZE == 2

(***************************************************************************)
(* Program constants.                                                      *)
(***************************************************************************)
SERVER_VERSION == 1

OpCode == [BACKUP |-> 100, RESTORE |-> 200, DELETE_FILE |-> 201, LIST_FILES |-> 202]

StatusCode == [RESTORE_SUCCESS |-> 210, LIST_SUCCESS |-> 211, GENERAL_SUCCESS |-> 212,
               ERROR_NO_FILE |-> 1001, ERROR_NO_FILES_FOR_CLIENT |-> 1002,
               ERROR_GENERAL |-> 1003]

\* ASCII codes of the characters the model's names are made of.
Chr == [slash |-> 47, dot |-> 46, nl |-> 10, zero |-> 48, a |-> 97, b |-> 98, x |-> 120]

\* sizeof(RequestHeader), sizeof(ResponseHeader) under #pragma pack(push, 1),
\* sizeof(uint16_t), sizeof(uint32_t).
SizeOf == [RequestHeader |-> 6, ResponseHeader |-> 3, u16 |-> 2, u32 |-> 4]

\* "C:\\backupsvr": one component below the drive root.
BASE_BACKUP_PATH == << <<98, 97, 99, 107, 117, 112, 115, 118, 114>> >>

(***************************************************************************)
(* Bytes and fixed-width integers.                                         *)
(***************************************************************************)
Min(i, j) == IF i <= j THEN i ELSE j

Pow2(n) == 2 ^ n

\* Conversion to uint16_t / uint32_t (the latter by 16-bit halves, which
\* keeps every intermediate value within TLC's 32-bit integers).
ToU16(n) == n % Pow2(16)

ToU32(n) == (n % Pow2(16)) + Pow2(16) * ((n \div Pow2(16)) % Pow2(16))

\* The bytes of a packed little-endian unsigned integer, and back.
RECURSIVE LE(_, _)
LE(n, width) == IF width = 0 THEN <<>> ELSE <<n % 256>> \o LE(n \div 256, width - 1)

RECURSIVE FromLE(_)
FromLE(bytes) == IF bytes = <<>> THEN 0 ELSE bytes[1] + 256 * FromLE(Tail(bytes))

RECURSIVE Flatten(_)
Flatten(seqs) == IF seqs = <<>> THEN <<>> ELSE seqs[1] \o Flatten(Tail(seqs))

Take(s, n) == SubSeq(s, 1, Min(n, Len(s)))

Drop(s, n) == SubSeq(s, Min(n, Len(s)) + 1, Len(s))

\* std::to_string(m_userId): decimal digits, most significant first.
RECURSIVE to_string(_)
to_string(n) == IF n < 10 THEN <<Chr.zero + n>>
                ELSE to_string(n \div 10) \o <<Chr.zero + (n % 10)>>

(***************************************************************************)
(* Paths (std::filesystem::path) and their resolution.                     *)
(***************************************************************************)
\* The components of a name, split at the separator (empty ones included).
RECURSIVE SplitAt(_, _, _)
SplitAt(bytes, sep, cur) ==
    IF bytes = <<>> THEN <<cur>>
    ELSE IF bytes[1] = sep THEN <<cur>> \o SplitAt(Tail(bytes), sep, <<>>)
    ELSE SplitAt(Tail(bytes), sep, Append(cur, bytes[1]))

Components(name) == SplitAt(name, Chr.slash, <<>>)

\* Resolution of a component list: "" and "." are skipped, ".." steps up
\* (and stays at the drive root when already there).
RECURSIVE Normalize(_, _)
Normalize(acc, comps) ==
    IF comps = <<>> THEN acc
    ELSE LET c == comps[1] IN
         IF c = <<>> \/ c = <<Chr.dot>> THEN Normalize(acc, Tail(comps))
         ELSE IF c = <<Chr.dot, Chr.dot>>
              THEN Normalize(IF acc = <<>> THEN acc ELSE SubSeq(acc, 1, Len(acc) - 1),
                             Tail(comps))
         ELSE Normalize(Append(acc, c), Tail(comps))

\* base / name (fs::path::operator/), resolved: a name with a root directory
\* replaces the base's relative path, any other name is appended to it.
PathAppend(base, name) ==
    IF name # <<>> /\ name[1] = Chr.slash
    THEN Normalize(<<>>, Components(name))
    ELSE Normalize(base, Components(name))

\* Variant: one directory for all users.
UserDirShared(userId) == PathAppend(BASE_BACKUP_PATH, to_string(0))

\* BASE_BACKUP_PATH / std::to_string(m_userId)
UserDir(userId) == PathAppend(BASE_BACKUP_PATH, to_string(userId))

\* BASE_BACKUP_PATH / std::to_string(m_userId) / filename
FilePath(userId, filename) == PathAppend(UserDir(userId), filename)

IsPrefix(p, q) == Len(p) <= Len(q) /\ SubSeq(q, 1, Len(p)) = p

Parent(p) == SubSeq(p, 1, Len(p) - 1)

(***************************************************************************)
(* The filesystem: a function from the existing paths to their nodes.      *)
(***************************************************************************)
\* A file's size is high * 2^32 + Len(data): data holds its first bytes, the
\* bytes beyond them (there are some only when high > 0) are zeros.
DirNode == [kind |-> "dir", data |-> <<>>, high |-> 0]

FileNode(bytes) == [kind |-> "file", data |-> bytes, high |-> 0]

\* fs::exists
Exists(fs, p) == p \in DOMAIN fs

\* fs::is_directory, fs::is_regular_file
IsDirectory(fs, p) == Exists(fs, p) /\ fs[p].kind = "dir"

IsRegularFile(fs, p) == Exists(fs, p) /\ fs[p].kind = "file"

Children(fs, p) == {q \in DOMAIN fs : Len(q) = Len(p) + 1 /\ IsPrefix(p, q)}

Put(fs, p, node) == [q \in DOMAIN fs \cup {p} |-> IF q = p THEN node ELSE fs[q]]

Erase(fs, p) == [q \in DOMAIN fs \ {p} |-> fs[q]]

\* fs::create_directories: creates every missing directory on the way to p;
\* it reports an error (throws) when an existing component is not a directory.
CreateDirectoriesThrows(fs, p) ==
    \E n \in 0..Len(p) : IsRegularFile(fs, SubSeq(p, 1, n))

CreateDirectories(fs, p) ==
    [q \in DOMAIN fs \cup {SubSeq(p, 1, n) : n \in 0..Len(p)} |->
        IF q \in DOMAIN fs THEN fs[q] ELSE DirNode]

\* std::ofstream(filePath, std::ios::binary): creates or truncates a regular
\* file in an existing directory; anything else leaves the stream failed.
CanOpenForWrite(fs, p) ==
    /\ p # <<>>
    /\ IsDirectory(fs, Parent(p))
    /\ ~IsDirectory(fs, p)

OpenForWrite(fs, p) == Put(fs, p, FileNode(<<>>))

\* outFile.write(buffer, n) at the stream's position: the bytes replace or
\* extend the file's content there.  A file that is gone takes no bytes.
WriteAt(fs, p, pos, bytes) ==
    IF ~IsRegularFile(fs, p) THEN fs
    ELSE LET old == fs[p].data
             pad == [i \in 1..(pos - Len(old)) |-> 0]
             head == IF pos <= Len(old) THEN SubSeq(old, 1, pos) ELSE old \o pad
         IN Put(fs, p, FileNode(head \o bytes \o Drop(old, pos + Len(bytes))))

\* std::ifstream(filePath, std::ios::binary)
CanOpenForRead(fs, p) == IsRegularFile(fs, p)

\* fs::remove: "removed" (true), "absent" (false), or "throws" (a directory
\* that is not empty, or the drive root).
RemoveResult(fs, p) ==
    IF ~Exists(fs, p) THEN "absent"
    ELSE IF p = <<>> \/ (IsDirectory(fs, p) /\ Children(fs, p) # {}) THEN "throws"
    ELSE "removed"

\* Variant: a removal that leaves the path in place.
RemoveNothing(fs, p) == fs

Remove(fs, p) == IF RemoveResult(fs, p) = "removed" THEN Erase(fs, p) ELSE fs

(***************************************************************************)
(* Requests as the clients put them on the wire.                           *)
(***************************************************************************)
\* The names the clients use: "", "a", "b", "../2/a", "/x".
Name == [empty |-> <<>>,
         a |-> <<Chr.a>>,
         b |-> <<Chr.b>>,
         up2a |-> <<Chr.dot, Chr.dot, Chr.slash, Chr.zero + 2, Chr.slash, Chr.a>>,
         absx |-> <<Chr.slash, Chr.x>>]

\* The payload a user sends: n bytes that tell the user and the position.
Payload(userId, n) == [i \in 1..n |-> 16 * userId + i]

\* Payload lengths: none, below the chunk, the chunk, several chunks and a rest.
PayloadLens == {0, 1, CHUNK_SIZE, 2 * CHUNK_SIZE + 1}

\* Operation codes no handler is registered for.
UnknownOps == {255}

BackupRequests(users, names, lens) ==
    {[user |-> u, op |-> OpCode.BACKUP, name |-> f, data |-> Payload(u, n)] :
        u \in users, f \in names, n \in lens}

NameRequests(users, names) ==
    {[user |-> u, op |-> o, name |-> f, data |-> <<>>] :
        u \in users, f \in names, o \in {OpCode.RESTORE, OpCode.DELETE_FILE}}

BareRequests(users) ==
    {[user |-> u, op |-> o, name |-> <<>>, data |-> <<>>] :
        u \in users, o \in {OpCode.LIST_FILES} \cup UnknownOps}

NoRequest == [user |-> 0, op |-> 0, name |-> <<>>, data |-> <<>>]

\* The bytes of a request: the packed RequestHeader, then the body of its
\* operation (the client speaks protocol version 1).
EncodeRequest(r) ==
    LE(r.user, 4) \o <<SERVER_VERSION, r.op>> \o
    (IF r.op = OpCode.BACKUP
        THEN LE(Len(r.name), 2) \o r.name \o LE(Len(r.data), 4) \o r.data
     ELSE IF r.op \in {OpCode.RESTORE, OpCode.DELETE_FILE}
        THEN LE(Len(r.name), 2) \o r.name
     ELSE <<>>)

(***************************************************************************)
(* State.                                                                  *)
(***************************************************************************)
VARIABLES
    fsys,       \* the filesystem shared by all sessions
    inbuf,      \* per connection: bytes the client sent, not yet read
    peer,       \* per connection: "open", "shut" (the client closed its sending
                \*   side: reads hit end of stream once inbuf is drained) or
                \*   "reset" (the connection is broken: reads and writes fail)
    pc,         \* per connection: where its thread is in handleRequest
    m_userId,   \* per connection: RequestHandler::m_userId
    loc,        \* per connection: the locals of the running handler
    out,        \* per connection: bytes written to the socket since the last
                \*   request header was read
    sent,       \* per connection: the request the client sent last (history)
    obs,        \* per connection: history of the request being handled
    lastBackup  \* history: resolved path -> payload of the last BACKUP answered
                \*   GENERAL_SUCCESS there, until a DELETE or BACKUP touches it

vars == <<fsys, inbuf, peer, pc, m_userId, loc, out, sent, obs, lastBackup>>

Conns == {1, 2}

LocInit == [op |-> 0, nameLen |-> 0, filename |-> <<>>, payloadSize |-> 0,
            filePath |-> <<>>, count |-> 0, contentSize |-> 0, blob |-> <<>>,
            pos |-> 0, eof |-> FALSE, bad |-> FALSE]

\* obs: req      the request whose header was read last
\*      cut      whether the client stopped sending before its end
\*      consumed bytes read from the socket since that header began
\*      calls    send*Response calls made for it
\*      readFail the field whose read failed ("none" when none did)
\*      thrown   whether a filesystem call threw while handling it
\*      done     the handler has returned
\*      before   lastBackup, as far as it lies in the directory of the
\*               request's user, as it was when that header was read
ObsInit == [req |-> NoRequest, cut |-> FALSE, consumed |-> 0, calls |-> 0,
            readFail |-> "none", thrown |-> FALSE, done |-> FALSE,
            before |-> <<>>]

\* No connection has been accepted.
InitSessions ==
    /\ inbuf = [c \in Conns |-> <<>>]
    /\ peer = [c \in Conns |-> "open"]
    /\ pc = [c \in Conns |-> "none"]
    /\ m_userId = [c \in Conns |-> 0]
    /\ loc = [c \in Conns |-> LocInit]
    /\ out = [c \in Conns |-> <<>>]
    /\ sent = [c \in Conns |-> [req |-> NoRequest, len |-> 0]]
    /\ obs = [c \in Conns |-> ObsInit]
    /\ lastBackup = <<>>

\* The drive root exists; the storage root is created on the first request.
Init ==
    /\ fsys = [p \in {<<>>} |-> DirNode]
    /\ InitSessions

\* The regular files of a filesystem, with their content.
RegularFiles(fs) == {<<p, fs[p].data>> : p \in {q \in DOMAIN fs : fs[q].kind = "file"}}

(***************************************************************************)
(* The accept loop and the clients.                                        *)
(***************************************************************************)
\* main: acceptor.accept(), then std::thread(session, socket).detach().
Accept(c) ==
    /\ pc[c] = "none"
    /\ pc' = [pc EXCEPT ![c] = "header"]
    /\ UNCHANGED <<fsys, inbuf, peer, m_userId, loc, out, sent, obs, lastBackup>>

\* A client that has seen the end of its previous exchange sends the next
\* request: all of it, or only its first len bytes, after which it closes
\* its sending side.  The histories of the previous exchange are forgotten.
ClientSend(c, sends) ==
    /\ pc[c] = "header" /\ peer[c] = "open" /\ inbuf[c] = <<>>
    /\ \E s \in sends :
         /\ inbuf' = [inbuf EXCEPT ![c] = Take(EncodeRequest(s.req), s.len)]
         /\ peer' = [peer EXCEPT ![c] =
                        IF s.len < Len(EncodeRequest(s.req)) THEN "shut" ELSE "open"]
         /\ sent' = [sent EXCEPT ![c] = s]
    /\ out' = [out EXCEPT ![c] = <<>>]
    /\ obs' = [obs EXCEPT ![c] = ObsInit]
    /\ UNCHANGED <<fsys, pc, m_userId, loc, lastBackup>>

\* The client closes its sending side.
ClientShut(c) ==
    /\ pc[c] \notin {"none", "closed"} /\ peer[c] = "open"
    /\ peer' = [peer EXCEPT ![c] = "shut"]
    /\ UNCHANGED <<fsys, inbuf, pc, m_userId, loc, out, sent, obs, lastBackup>>

\* The connection breaks: unread bytes are lost, reads and writes fail.
ClientReset(c) ==
    /\ pc[c] \notin {"none", "closed"} /\ peer[c] # "reset"
    /\ peer' = [peer EXCEPT ![c] = "reset"]
    /\ inbuf' = [inbuf EXCEPT ![c] = <<>>]
    /\ UNCHANGED <<fsys, pc, m_userId, loc, out, sent, obs, lastBackup>>

(***************************************************************************)
(* readBytes and sendBytes.                                                *)
(***************************************************************************)
\* boost::asio::read of `length` bytes succeeds once they have all arrived
\* (at once for a length of 0) ...
ReadSucceeds(c, length) == length = 0 \/ Len(inbuf[c]) >= length

\* ... and fails when the stream ends or breaks before that.
ReadFails(c, length) == length > 0 /\ Len(inbuf[c]) < length /\ peer[c] # "open"

\* What a sequence of sendBytes calls puts on the socket: every field, or,
\* when the connection breaks before field k + 1, the first k (each later
\* call fails and is ignored by the encoders).
SendOutcomes(c, fields) ==
    IF peer[c] = "reset" THEN {[bytes |-> <<>>, peer |-> "reset"]}
    ELSE {[bytes |-> Flatten(fields), peer |-> peer[c]]}
         \cup {[bytes |-> Flatten(SubSeq(fields, 1, k)), peer |-> "reset"] :
                 k \in 0..(Len(fields) - 1)}

Send(c, fields) ==
    \E o \in SendOutcomes(c, fields) :
        /\ out' = [out EXCEPT ![c] = @ \o o.bytes]
        /\ peer' = [peer EXCEPT ![c] = o.peer]
        /\ inbuf' = IF o.peer = "reset" THEN [inbuf EXCEPT ![c] = <<>>] ELSE inbuf

(***************************************************************************)
(* The response encoders.                                                  *)
(***************************************************************************)
ResponseHeader(status) == LE(SERVER_VERSION, 1) \o LE(status, 2)

\* sendSimpleStatusResponse: one sendBytes call.
SimpleStatusResponse(status) == <<ResponseHeader(status)>>

\* sendFullHeaderResponse: header, nameLen, filename.c_str()[0..nameLen).
FullHeaderResponse(status, filename) ==
    LET nameLen == ToU16(Len(filename))
    IN <<ResponseHeader(status), LE(nameLen, SizeOf.u16), Take(filename, nameLen)>>

\* sendStreamResponse, up to the content: header, nameLen, filename, contentSize.
StreamResponseHead(status, filename, contentSize) ==
    FullHeaderResponse(status, filename) \o <<LE(contentSize, SizeOf.u32)>>

(***************************************************************************)
(* handleRequest: the session loop.                                        *)
(***************************************************************************)
\* Variant: the switch without its default label, the last case taking over.
DispatchWithoutDefault(op) ==
    IF op \in {OpCode.BACKUP, OpCode.RESTORE, OpCode.DELETE_FILE} THEN "nameLen"
    ELSE "list"

\* The switch of handleRequest: where each operation code leads.
Dispatch(op) ==
    IF op \in {OpCode.BACKUP, OpCode.RESTORE, OpCode.DELETE_FILE} THEN "nameLen"
    ELSE IF op = OpCode.LIST_FILES THEN "list"
    ELSE "unknown"

\* A handler returns: the loop goes back to reading a header.
Return(c) ==
    /\ pc' = [pc EXCEPT ![c] = "header"]
    /\ loc' = [loc EXCEPT ![c] = LocInit]

\* An exception leaves the loop through the catch clauses of handleRequest.
Throw(c) ==
    /\ pc' = [pc EXCEPT ![c] = "closed"]
    /\ loc' = [loc EXCEPT ![c] = LocInit]
    /\ obs' = [obs EXCEPT ![c].thrown = TRUE, ![c].done = TRUE]

\* readBytes(&header, sizeof(header)) succeeds: record the user, make sure
\* the storage root exists, dispatch on the operation code.
ReadHeader(c) ==
    /\ pc[c] = "header"
    /\ ReadSucceeds(c, SizeOf.RequestHeader)
    /\ LET header == Take(inbuf[c], SizeOf.RequestHeader)
           userId == FromLE(SubSeq(header, 1, 4))
           op == header[6]
           started == [req |-> sent[c].req,
                       cut |-> sent[c].len < Len(EncodeRequest(sent[c].req)),
                       consumed |-> SizeOf.RequestHeader, calls |-> 0,
                       readFail |-> "none", thrown |-> FALSE, done |-> FALSE,
                       before |-> [p \in {q \in DOMAIN lastBackup :
                                               IsPrefix(UserDir(userId), q)}
                                   |-> lastBackup[p]]]
       IN /\ inbuf' = [inbuf EXCEPT ![c] = Drop(@, SizeOf.RequestHeader)]
          /\ m_userId' = [m_userId EXCEPT ![c] = userId]
          /\ IF CreateDirectoriesThrows(fsys, BASE_BACKUP_PATH)
             THEN /\ pc' = [pc EXCEPT ![c] = "closed"]
                  /\ obs' = [obs EXCEPT ![c] = [started EXCEPT !.thrown = TRUE,
                                                               !.done = TRUE]]
                  /\ UNCHANGED <<fsys, loc>>
             ELSE /\ fsys' = CreateDirectories(fsys, BASE_BACKUP_PATH)
                  /\ pc' = [pc EXCEPT ![c] = Dispatch(op)]
                  /\ loc' = [loc EXCEPT ![c] = [LocInit EXCEPT !.op = op]]
                  /\ obs' = [obs EXCEPT ![c] = started]
    /\ UNCHANGED <<peer, out, sent, lastBackup>>

\* Variant: a failed header read is answered like an unknown operation.
HeaderFailureAnswered == "unknown"

\* if (!readBytes(&header, sizeof(header))) break;
HeaderFailure == "closed"

\* readBytes(&header, sizeof(header)) fails: break, the session is over.
ReadHeaderFails(c) ==
    /\ pc[c] = "header"
    /\ ReadFails(c, SizeOf.RequestHeader)
    /\ inbuf' = [inbuf EXCEPT ![c] = <<>>]
    /\ pc' = [pc EXCEPT ![c] = HeaderFailure]
    /\ UNCHANGED <<fsys, peer, m_userId, loc, out, sent, obs, lastBackup>>

\* default: sendFullHeaderResponse(ERROR_GENERAL, "").
UnknownOperation(c) ==
    /\ pc[c] = "unknown"
    /\ Send(c, FullHeaderResponse(StatusCode.ERROR_GENERAL, <<>>))
    /\ Return(c)
    /\ obs' = [obs EXCEPT ![c].calls = @ + 1, ![c].done = TRUE]
    /\ UNCHANGED <<fsys, m_userId, sent, lastBackup>>

(***************************************************************************)
(* The request parser shared by handleBackup, handleRestore, handleDelete. *)
(***************************************************************************)
\* A read of a handler fails: the handler returns without a response.
ReadFailsIn(c, field) ==
    /\ inbuf' = [inbuf EXCEPT ![c] = <<>>]
    /\ Return(c)
    /\ obs' = [obs EXCEPT ![c].readFail = field, ![c].done = TRUE]

\* readBytes(&nameLen, sizeof(nameLen))
ReadNameLen(c) ==
    /\ pc[c] = "nameLen"
    /\ \/ /\ ReadSucceeds(c, SizeOf.u16)
          /\ inbuf' = [inbuf EXCEPT ![c] = Drop(@, SizeOf.u16)]
          /\ loc' = [loc EXCEPT ![c].nameLen = FromLE(Take(inbuf[c], SizeOf.u16))]
          /\ pc' = [pc EXCEPT ![c] = "name"]
          /\ obs' = [obs EXCEPT ![c].consumed = @ + SizeOf.u16]
       \/ /\ ReadFails(c, SizeOf.u16)
          /\ ReadFailsIn(c, "nameLen")
    /\ UNCHANGED <<fsys, peer, m_userId, out, sent, lastBackup>>

\* Where a handler goes once it has the filename.
AfterName(op) ==
    IF op = OpCode.BACKUP THEN "payloadSize"
    ELSE IF op = OpCode.RESTORE THEN "restore"
    ELSE "delete"

\* readBytes(&filename[0], nameLen); handleRestore and handleDelete then
\* build filePath.
ReadName(c) ==
    /\ pc[c] = "name"
    /\ \/ /\ ReadSucceeds(c, loc[c].nameLen)
          /\ LET filename == Take(inbuf[c], loc[c].nameLen)
             IN /\ inbuf' = [inbuf EXCEPT ![c] = Drop(@, loc[c].nameLen)]
                /\ loc' = [loc EXCEPT ![c].filename = filename,
                                      ![c].filePath =
                                          IF loc[c].op = OpCode.BACKUP THEN <<>>
                                          ELSE FilePath(m_userId[c], filename)]
                /\ pc' = [pc EXCEPT ![c] = AfterName(loc[c].op)]
                /\ obs' = [obs EXCEPT ![c].consumed = @ + loc[c].nameLen]
       \/ /\ ReadFails(c, loc[c].nameLen)
          /\ ReadFailsIn(c, "name")
    /\ UNCHANGED <<fsys, peer, m_userId, out, sent, lastBackup>>

(***************************************************************************)
(* handleBackup                                                            *)
(***************************************************************************)
\* readBytes(&payloadSize, sizeof(payloadSize))
ReadPayloadSize(c) ==
    /\ pc[c] = "payloadSize"
    /\ \/ /\ ReadSucceeds(c, SizeOf.u32)
          /\ inbuf' = [inbuf EXCEPT ![c] = Drop(@, SizeOf.u32)]
          /\ loc' = [loc EXCEPT ![c].payloadSize = FromLE(Take(inbuf[c], SizeOf.u32))]
          /\ pc' = [pc EXCEPT ![c] = "open"]
          /\ obs' = [obs EXCEPT ![c].consumed = @ + SizeOf.u32]
       \/ /\ ReadFails(c, SizeOf.u32)
          /\ ReadFailsIn(c, "payloadSize")
    /\ UNCHANGED <<fsys, peer, m_userId, out, sent, lastBackup>>

\* Another session holds p open: the ofstream of its copy loop or the
\* ifstream its RESTORE is streaming from.
OpenElsewhere(c, p) ==
    \E d \in Conns \ {c} :
        /\ loc[d].filePath = p
        /\ \/ pc[d] = "copy"
           \/ pc[d] = "stream" /\ loc[d].op = OpCode.RESTORE

\* fs::remove as session c meets it: the streams of the other sessions do
\* not share their file for deletion, so the removal of a file one of them
\* holds open reports an error.
RemoveOutcome(c, p) ==
    IF OpenElsewhere(c, p) THEN "throws" ELSE RemoveResult(fsys, p)

\* The path handleBackup stores to: userDir / filename.
BackupPath(userId, filename) == PathAppend(UserDir(userId), filename)

Without(f, p) == [q \in DOMAIN f \ {p} |-> f[q]]

\* fs::create_directories(userDir); std::ofstream outFile(filePath, binary):
\* on success the copy loop starts with bytesReceived = 0, on failure the
\* drain loop with remainingBytes = payloadSize.
BackupOpen(c) ==
    /\ pc[c] = "open"
    /\ LET userDir == UserDir(m_userId[c])
           filePath == BackupPath(m_userId[c], loc[c].filename)
       IN IF CreateDirectoriesThrows(fsys, userDir)
          THEN Throw(c) /\ UNCHANGED <<fsys, lastBackup>>
          ELSE LET made == CreateDirectories(fsys, userDir)
               IN IF CanOpenForWrite(made, filePath)
                  THEN /\ fsys' = OpenForWrite(made, filePath)
                       /\ loc' = [loc EXCEPT ![c].filePath = filePath, ![c].count = 0]
                       /\ pc' = [pc EXCEPT ![c] = "copy"]
                       /\ lastBackup' = Without(lastBackup, filePath)
                       /\ UNCHANGED obs
                  ELSE /\ fsys' = made
                       /\ loc' = [loc EXCEPT ![c].filePath = filePath,
                                             ![c].count = loc[c].payloadSize]
                       /\ pc' = [pc EXCEPT ![c] = "drain"]
                       /\ UNCHANGED <<obs, lastBackup>>
    /\ UNCHANGED <<inbuf, peer, m_userId, out, sent>>

\* std::min((uint32_t)buffer.size(), remainingBytes)
DrainBytesToRead(remainingBytes) == Min(ToU32(CHUNK_SIZE), remainingBytes)

\* The drain loop: one readBytes per step; a failed read breaks the loop.
BackupDrain(c) ==
    /\ pc[c] = "drain"
    /\ LET bytesToRead == DrainBytesToRead(loc[c].count)
       IN \/ /\ loc[c].count > 0
             /\ ReadSucceeds(c, bytesToRead)
             /\ inbuf' = [inbuf EXCEPT ![c] = Drop(@, bytesToRead)]
             /\ loc' = [loc EXCEPT ![c].count = @ - bytesToRead]
             /\ obs' = [obs EXCEPT ![c].consumed = @ + bytesToRead]
             /\ UNCHANGED pc
          \/ /\ loc[c].count > 0
             /\ ReadFails(c, bytesToRead)
             /\ inbuf' = [inbuf EXCEPT ![c] = <<>>]
             /\ pc' = [pc EXCEPT ![c] = "drained"]
             /\ obs' = [obs EXCEPT ![c].readFail = "payload"]
             /\ UNCHANGED loc
          \/ /\ loc[c].count = 0
             /\ pc' = [pc EXCEPT ![c] = "drained"]
             /\ UNCHANGED <<inbuf, loc, obs>>
    /\ UNCHANGED <<fsys, peer, m_userId, out, sent, lastBackup>>

\* After the drain loop: sendFullHeaderResponse(ERROR_GENERAL, filename).
BackupDrained(c) ==
    /\ pc[c] = "drained"
    /\ Send(c, FullHeaderResponse(StatusCode.ERROR_GENERAL, loc[c].filename))
    /\ Return(c)
    /\ obs' = [obs EXCEPT ![c].calls = @ + 1, ![c].done = TRUE]
    /\ UNCHANGED <<fsys, m_userId, sent, lastBackup>>

\* Variant: every read of the copy loop asks for a whole chunk.
BytesToReadWholeChunk(payloadSize, bytesReceived) == CHUNK_SIZE

\* std::min(CHUNK_SIZE, (size_t)(payloadSize - bytesReceived))
BytesToRead(payloadSize, bytesReceived) == Min(CHUNK_SIZE, payloadSize - bytesReceived)

\* The copy loop: readBytes, outFile.write, bytesReceived += bytesToRead.
\* A failed read closes and removes the file and returns without a response.
\* A stream whose earlier write failed (loc.bad) takes no more bytes.
BackupCopy(c) ==
    /\ pc[c] = "copy"
    /\ loc[c].count < loc[c].payloadSize
    /\ LET bytesToRead == BytesToRead(loc[c].payloadSize, loc[c].count)
       IN \/ /\ ReadSucceeds(c, bytesToRead)
             /\ inbuf' = [inbuf EXCEPT ![c] = Drop(@, bytesToRead)]
             /\ fsys' = IF loc[c].bad THEN fsys
                        ELSE WriteAt(fsys, loc[c].filePath, loc[c].count,
                                     Take(inbuf[c], bytesToRead))
             /\ loc' = [loc EXCEPT ![c].count = ToU32(@ + bytesToRead)]
             /\ obs' = [obs EXCEPT ![c].consumed = @ + bytesToRead]
             /\ UNCHANGED pc
          \/ /\ ReadFails(c, bytesToRead)
             /\ inbuf' = [inbuf EXCEPT ![c] = <<>>]
             /\ IF RemoveOutcome(c, loc[c].filePath) = "throws"
                THEN /\ pc' = [pc EXCEPT ![c] = "closed"]
                     /\ loc' = [loc EXCEPT ![c] = LocInit]
                     /\ obs' = [obs EXCEPT ![c].readFail = "payload",
                                           ![c].thrown = TRUE, ![c].done = TRUE]
                     /\ UNCHANGED fsys
                ELSE /\ fsys' = Remove(fsys, loc[c].filePath)
                     /\ Return(c)
                     /\ obs' = [obs EXCEPT ![c].readFail = "payload", ![c].done = TRUE]
    /\ UNCHANGED <<peer, m_userId, out, sent, lastBackup>>

\* A pass of the copy loop in which outFile.write fails (the volume is
\* full, the write is denied): the chunk is read from the socket, nothing
\* reaches the file, the stream is left in its failed state, and, the
\* result of write not being looked at, bytesReceived is advanced.
BackupWriteFails(c) ==
    /\ pc[c] = "copy"
    /\ loc[c].count < loc[c].payloadSize
    /\ ~loc[c].bad
    /\ LET bytesToRead == BytesToRead(loc[c].payloadSize, loc[c].count)
       IN /\ ReadSucceeds(c, bytesToRead)
          /\ inbuf' = [inbuf EXCEPT ![c] = Drop(@, bytesToRead)]
          /\ loc' = [loc EXCEPT ![c].count = ToU32(@ + bytesToRead), ![c].bad = TRUE]
          /\ obs' = [obs EXCEPT ![c].consumed = @ + bytesToRead]
    /\ UNCHANGED <<fsys, peer, pc, m_userId, out, sent, lastBackup>>

\* After the copy loop: outFile.close(), then
\* sendFullHeaderResponse(GENERAL_SUCCESS, filename).
BackupDone(c) ==
    /\ pc[c] = "copy"
    /\ loc[c].count >= loc[c].payloadSize
    /\ Send(c, FullHeaderResponse(StatusCode.GENERAL_SUCCESS, loc[c].filename))
    /\ Return(c)
    /\ obs' = [obs EXCEPT ![c].calls = @ + 1, ![c].done = TRUE]
    /\ lastBackup' =
         IF peer'[c] # "reset"
         THEN [q \in DOMAIN lastBackup \cup {loc[c].filePath} |->
                 IF q = loc[c].filePath THEN obs[c].req.data ELSE lastBackup[q]]
         ELSE lastBackup
    /\ UNCHANGED <<fsys, m_userId, sent>>

(***************************************************************************)
(* sendStreamResponse                                                      *)
(***************************************************************************)
\* The bytes behind contentStream: the file of handleRestore as it is now
\* (nothing when it is gone), the string of handleListFiles.  Of the zeros
\* of a file of 2^32 bytes or more one chunk is enough for a read.
StreamSource(c) ==
    IF loc[c].op = OpCode.LIST_FILES THEN loc[c].blob
    ELSE IF IsRegularFile(fsys, loc[c].filePath)
         THEN fsys[loc[c].filePath].data
              \o [i \in 1..(IF fsys[loc[c].filePath].high > 0 THEN CHUNK_SIZE ELSE 0) |-> 0]
    ELSE <<>>

\* Variant: every read starts at the beginning of the stream.
StreamReadRewound(source, pos, eof) ==
    IF eof THEN <<>> ELSE SubSeq(source, 1, Min(CHUNK_SIZE, Len(source)))

\* contentStream.read(buffer, CHUNK_SIZE): up to CHUNK_SIZE bytes from the
\* stream's position; nothing once the stream has hit its end.
StreamRead(source, pos, eof) ==
    IF eof THEN <<>> ELSE SubSeq(source, pos + 1, Min(pos + CHUNK_SIZE, Len(source)))

\* The header fields of sendStreamResponse, then the first test of its loop.
StreamStart(c, status, filename, contentSize, blob) ==
    /\ Send(c, StreamResponseHead(status, filename, contentSize))
    /\ obs' = [obs EXCEPT ![c].calls = @ + 1, ![c].done = (contentSize = 0)]
    /\ IF contentSize = 0
       THEN Return(c)
       ELSE /\ pc' = [pc EXCEPT ![c] = "stream"]
            /\ loc' = [loc EXCEPT ![c].contentSize = contentSize, ![c].blob = blob,
                                  ![c].count = 0, ![c].pos = 0, ![c].eof = FALSE]

\* One pass of the loop of sendStreamResponse: read a chunk, send it, count
\* it; the loop ends when the count reaches contentSize, when the stream
\* gives nothing, or when the send fails.
StreamChunk(c) ==
    /\ pc[c] = "stream"
    /\ LET chunk == StreamRead(StreamSource(c), loc[c].pos, loc[c].eof)
           bytesRead == Len(chunk)
           total == ToU32(loc[c].count + bytesRead)
       IN IF bytesRead > 0 /\ peer[c] # "reset"
          THEN /\ out' = [out EXCEPT ![c] = @ \o chunk]
               /\ IF total < loc[c].contentSize
                  THEN /\ loc' = [loc EXCEPT ![c].count = total,
                                             ![c].pos = @ + bytesRead,
                                             ![c].eof = bytesRead < CHUNK_SIZE]
                       /\ UNCHANGED <<pc, obs>>
                  ELSE /\ Return(c)
                       /\ obs' = [obs EXCEPT ![c].done = TRUE]
          ELSE /\ Return(c)
               /\ obs' = [obs EXCEPT ![c].done = TRUE]
               /\ UNCHANGED out
    /\ UNCHANGED <<fsys, inbuf, peer, m_userId, sent, lastBackup>>

(***************************************************************************)
(* handleRestore                                                           *)
(***************************************************************************)
\* if (!fs::exists(filePath)) sendFullHeaderResponse(ERROR_NO_FILE, filename)
RestoreExists(c) ==
    /\ pc[c] = "restore"
    /\ IF ~Exists(fsys, loc[c].filePath)
       THEN /\ Send(c, FullHeaderResponse(StatusCode.ERROR_NO_FILE, loc[c].filename))
            /\ Return(c)
            /\ obs' = [obs EXCEPT ![c].calls = @ + 1, ![c].done = TRUE]
       ELSE /\ pc' = [pc EXCEPT ![c] = "fileSize"]
            /\ UNCHANGED <<inbuf, peer, loc, out, obs>>
    /\ UNCHANGED <<fsys, m_userId, sent, lastBackup>>

\* A uintmax_t as its two 32-bit words, and the error of fs::file_size.
FileSizeOf(high, low) == [error |-> FALSE, high |-> high, low |-> low]

FileSizeError == [error |-> TRUE, high |-> 0, low |-> 0]

\* fs::file_size of a regular file; of anything else the result is
\* implementation-defined: the libraries either report an error (an
\* exception here) or give the size the directory entry carries (0).
FileSizeOutcomes(fs, p) ==
    IF IsRegularFile(fs, p) THEN {FileSizeOf(fs[p].high, Len(fs[p].data))}
    ELSE IF IsDirectory(fs, p) THEN {FileSizeError, FileSizeOf(0, 0)}
    ELSE {FileSizeError}

\* The conversion of uintmax_t to uint32_t keeps the low 32 bits.
U64ToU32(size) == ToU32(size.low)

\* uint32_t fileSize = fs::file_size(filePath);
RestoreFileSize(c) ==
    /\ pc[c] = "fileSize"
    /\ \E size \in FileSizeOutcomes(fsys, loc[c].filePath) :
         IF size.error
         THEN Throw(c)
         ELSE /\ loc' = [loc EXCEPT ![c].contentSize = U64ToU32(size)]
              /\ pc' = [pc EXCEPT ![c] = "openRead"]
              /\ UNCHANGED obs
    /\ UNCHANGED <<fsys, inbuf, peer, m_userId, out, sent, lastBackup>>

\* std::ifstream inFile(filePath, binary): ERROR_GENERAL when it fails,
\* sendStreamResponse(RESTORE_SUCCESS, filename, fileSize, inFile) otherwise.
RestoreOpen(c) ==
    /\ pc[c] = "openRead"
    /\ IF ~CanOpenForRead(fsys, loc[c].filePath)
       THEN /\ Send(c, FullHeaderResponse(StatusCode.ERROR_GENERAL, loc[c].filename))
            /\ Return(c)
            /\ obs' = [obs EXCEPT ![c].calls = @ + 1, ![c].done = TRUE]
       ELSE StreamStart(c, StatusCode.RESTORE_SUCCESS, loc[c].filename,
                        loc[c].contentSize, <<>>)
    /\ UNCHANGED <<fsys, m_userId, sent, lastBackup>>

(***************************************************************************)
(* handleDelete                                                            *)
(***************************************************************************)
\* if (!fs::exists(filePath)) sendFullHeaderResponse(GENERAL_SUCCESS, filename)
DeleteExists(c) ==
    /\ pc[c] = "delete"
    /\ IF ~Exists(fsys, loc[c].filePath)
       THEN /\ Send(c, FullHeaderResponse(StatusCode.GENERAL_SUCCESS, loc[c].filename))
            /\ Return(c)
            /\ obs' = [obs EXCEPT ![c].calls = @ + 1, ![c].done = TRUE]
       ELSE /\ pc' = [pc EXCEPT ![c] = "remove"]
            /\ UNCHANGED <<inbuf, peer, loc, out, obs>>
    /\ UNCHANGED <<fsys, m_userId, sent, lastBackup>>

\* The status handleDelete answers with for each result of fs::remove.
DeleteStatus(result) ==
    IF result = "removed" THEN StatusCode.GENERAL_SUCCESS ELSE StatusCode.ERROR_GENERAL

\* if (fs::remove(filePath)) GENERAL_SUCCESS else ERROR_GENERAL; an error of
\* fs::remove is an exception.
DeleteRemove(c) ==
    /\ pc[c] = "remove"
    /\ LET result == RemoveOutcome(c, loc[c].filePath)
       IN IF result = "throws"
          THEN Throw(c) /\ UNCHANGED <<fsys, inbuf, peer, out, lastBackup>>
          ELSE /\ fsys' = Remove(fsys, loc[c].filePath)
               /\ Send(c, FullHeaderResponse(DeleteStatus(result), loc[c].filename))
               /\ Return(c)
               /\ obs' = [obs EXCEPT ![c].calls = @ + 1, ![c].done = TRUE]
               /\ lastBackup' = Without(lastBackup, loc[c].filePath)
    /\ UNCHANGED <<m_userId, sent>>

(***************************************************************************)
(* handleListFiles                                                         *)
(***************************************************************************)
\* The orders a directory_iterator may give the entries of a set in.
Orders(S) ==
    {order \in [1..Cardinality(S) -> S] :
        \A i, j \in 1..Cardinality(S) : i # j => order[i] # order[j]}

\* Variant: the names one after the other, without the newlines.
RECURSIVE FileListStrUnterminated(_)
FileListStrUnterminated(entries) ==
    IF entries = <<>> THEN <<>>
    ELSE entries[1][Len(entries[1])] \o FileListStrUnterminated(Tail(entries))

\* entry.path().filename().string() + "\n" for each entry, in order.
RECURSIVE FileListStr(_)
FileListStr(entries) ==
    IF entries = <<>> THEN <<>>
    ELSE entries[1][Len(entries[1])] \o <<Chr.nl>> \o FileListStr(Tail(entries))

\* The entries of userDir that handleListFiles lists.
ListedEntries(fs, userDir) ==
    IF Exists(fs, userDir) /\ IsDirectory(fs, userDir)
    THEN {q \in Children(fs, userDir) : IsRegularFile(fs, q)}
    ELSE {}

\* ERROR_NO_FILES_FOR_CLIENT when no regular file was found, otherwise
\* sendStreamResponse(LIST_SUCCESS, "", contentSize, contentStream).
HandleListFiles(c) ==
    /\ pc[c] = "list"
    /\ LET entries == ListedEntries(fsys, UserDir(m_userId[c]))
       IN IF entries = {}
          THEN /\ Send(c, SimpleStatusResponse(StatusCode.ERROR_NO_FILES_FOR_CLIENT))
               /\ Return(c)
               /\ obs' = [obs EXCEPT ![c].calls = @ + 1, ![c].done = TRUE]
          ELSE \E order \in Orders(entries) :
                 StreamStart(c, StatusCode.LIST_SUCCESS, <<>>,
                             ToU32(Len(FileListStr(order))), FileListStr(order))
    /\ UNCHANGED <<fsys, m_userId, sent, lastBackup>>

(***************************************************************************)
(* Specifications.                                                         *)
(***************************************************************************)
\* A step of the thread that serves connection c.
Server(c) ==
    \/ ReadHeader(c) \/ ReadHeaderFails(c) \/ UnknownOperation(c)
    \/ ReadNameLen(c) \/ ReadName(c) \/ ReadPayloadSize(c)
    \/ BackupOpen(c) \/ BackupDrain(c) \/ BackupDrained(c)
    \/ BackupCopy(c) \/ BackupDone(c)
    \/ RestoreExists(c) \/ RestoreFileSize(c) \/ RestoreOpen(c) \/ StreamChunk(c)
    \/ DeleteExists(c) \/ DeleteRemove(c)
    \/ HandleListFiles(c)

Client(c, sends) == ClientSend(c, sends) \/ ClientShut(c) \/ ClientReset(c)

\* The requests sent whole.
WholeSends(requests) == {[req |-> r, len |-> Len(EncodeRequest(r))] : r \in requests}

\* The requests sent whole or stopped anywhere before their end.
AnyCutSends(requests) ==
    UNION {{[req |-> r, len |-> k] : k \in 0..Len(EncodeRequest(r))} : r \in requests}

\* The requests stopped one byte before their end.
LastByteCutSends(requests) ==
    {[req |-> r, len |-> Len(EncodeRequest(r)) - 1] : r \in requests}

\* The payload lengths of the requests that are not about chunking.
FewLens == {0, 2 * CHUNK_SIZE + 1}

\* Spec: one connection, on which requests of users 1 and 2 arrive, with
\* names that leave the user's directory.
SessionRequests ==
    BackupRequests({1}, {Name.empty, Name.a, Name.up2a, Name.absx}, FewLens)
    \cup BackupRequests({2}, {Name.a}, FewLens)
    \cup NameRequests({1}, {Name.empty, Name.a, Name.up2a, Name.absx})
    \cup NameRequests({2}, {Name.empty, Name.a})
    \cup BareRequests({1, 2})

Next == Accept(1) \/ Client(1, AnyCutSends(SessionRequests)) \/ Server(1)

Spec == Init /\ [][Next]_vars

\* SpecFiles: one connection of user 1, two plain names, every payload length.
FilesRequests ==
    BackupRequests({1}, {Name.empty, Name.a, Name.b}, PayloadLens)
    \cup NameRequests({1}, {Name.empty, Name.a, Name.b})
    \cup BareRequests({1})

NextFiles == Accept(1) \/ Client(1, AnyCutSends(FilesRequests)) \/ Server(1)

SpecFiles == Init /\ [][NextFiles]_vars

\* SpecUsers: two connections served by two threads; connection u carries
\* the requests of user u, both users use the same names.
UserRequests(u) ==
    BackupRequests({u}, {Name.empty, Name.a}, {1, CHUNK_SIZE + 1})
    \cup NameRequests({u}, {Name.a})
    \cup BareRequests({u})

\* Every request is sent whole; a BACKUP of "a" may also stop one byte
\* before its end.
UserSends(u) ==
    WholeSends(UserRequests(u))
    \cup LastByteCutSends(BackupRequests({u}, {Name.a}, {1, CHUNK_SIZE + 1}))

NextUsers ==
    \E c \in Conns : Accept(c) \/ ClientSend(c, UserSends(c)) \/ Server(c)

SpecUsers == Init /\ [][NextUsers]_vars

\* SpecRace: two connections served by two threads, both carrying requests
\* of user 1 for the same name; the payload of connection c is Payload(c, _).
RaceBackups(c) ==
    {[r EXCEPT !.user = 1] : r \in BackupRequests({c}, {Name.a}, {2 * CHUNK_SIZE + 1})}

RaceRequests(c) ==
    RaceBackups(c)
    \cup BackupRequests({1}, {Name.empty}, {1})
    \cup NameRequests({1}, {Name.a})
    \cup BareRequests({1})

RaceSends(c) == WholeSends(RaceRequests(c)) \cup LastByteCutSends(RaceBackups(c))

NextRace ==
    \E c \in Conns : Accept(c) \/ ClientSend(c, RaceSends(c)) \/ Server(c)

SpecRace == Init /\ [][NextRace]_vars

\* SpecDisk: one connection of user 1 on a volume where a write to an open
\* file may fail.  (In the other specifications every write succeeds.)
DiskRequests ==
    BackupRequests({1}, {Name.empty, Name.a}, FewLens)
    \cup NameRequests({1}, {Name.empty, Name.a})
    \cup BareRequests({1})

NextDisk ==
    Accept(1) \/ Client(1, AnyCutSends(DiskRequests)) \/ Server(1) \/ BackupWriteFails(1)

SpecDisk == Init /\ [][NextDisk]_vars

\* SpecLive: the session of Spec whose thread keeps running: a step of the
\* thread that stays possible is eventually taken (every socket and file
\* call returns).
SpecLive == Init /\ [][Next]_vars /\ WF_vars(Server(1))

\* SpecBig: one connection of user 1; the storage already holds, under the
\* name "b", a file of 2^32 + 1 bytes (BACKUP cannot store one: its payload
\* length is a uint32_t; the file was put there by other means).
BigFile == [kind |-> "file", data |-> <<33>>, high |-> 1]

InitBig ==
    /\ fsys = Put(CreateDirectories([p \in {<<>>} |-> DirNode], UserDir(1)),
                  PathAppend(UserDir(1), Name.b), BigFile)
    /\ InitSessions

BigRequests ==
    BackupRequests({1}, {Name.empty, Name.a}, FewLens)
    \cup NameRequests({1}, {Name.empty, Name.a, Name.b})
    \cup BareRequests({1})

NextBig == Accept(1) \/ Client(1, AnyCutSends(BigRequests)) \/ Server(1)

SpecBig == InitBig /\ [][NextBig]_vars

(***************************************************************************)
(* Properties.                                                             *)
(***************************************************************************)
\* The bytes of a header+filename response and of a header+filename+content
\* response, written out from the wire format.
ExpectedFull(status, name) ==
    <<SERVER_VERSION, status % 256, status \div 256, Len(name) % 256, Len(name) \div 256>>
    \o name

ExpectedStream(status, name, content) ==
    ExpectedFull(status, name)
    \o <<Len(content) % 256, (Len(content) \div 256) % 256,
         (Len(content) \div 65536) % 256, Len(content) \div 16777216>>
    \o content

\* The handler of the request has returned and no write to the socket failed.
Answered(c) == obs[c].done /\ peer[c] # "reset"

\* The client sent the request to its last byte.
Whole(c) == ~obs[c].cut

\* <root>/<userId>/<filename> for a plain filename.
StoredAt(userId, filename) == BASE_BACKUP_PATH \o <<to_string(userId), filename>>

PlainNames == {Name.a, Name.b}

\* C1: every request whose header was read gets exactly one response, except
\* that a request whose body (name, lengths, payload) could not be read to
\* its end gets none: not a byte is sent for it.
C1_ExactlyOneResponse ==
    \A c \in Conns :
        obs[c].done =>
            IF obs[c].readFail = "none" THEN obs[c].calls = 1
            ELSE out[c] = <<>>

\* C2: a BACKUP of a plain filename that is answered GENERAL_SUCCESS has
\* stored exactly the payload at <root>/<userId>/<filename> and has read
\* exactly the bytes of the request; a whole request on an unbroken
\* connection is answered so; and no read of the copy loop reaches beyond
\* the request's last byte.
C2_BackupStoresPayload ==
    \A c \in Conns :
        LET r == obs[c].req
            succeeded == out[c] = ExpectedFull(StatusCode.GENERAL_SUCCESS, r.name)
        IN /\ (pc[c] = "copy" /\ loc[c].count < loc[c].payloadSize)
                => obs[c].consumed + BytesToRead(loc[c].payloadSize, loc[c].count)
                       <= Len(EncodeRequest(r))
           /\ (obs[c].done /\ r.op = OpCode.BACKUP /\ r.name \in PlainNames)
                => /\ (Whole(c) /\ peer[c] # "reset") => succeeded
                   /\ succeeded
                        => /\ IsRegularFile(fsys, StoredAt(r.user, r.name))
                           /\ fsys[StoredAt(r.user, r.name)].data = r.data
                           /\ obs[c].consumed = Len(EncodeRequest(r))
                           /\ inbuf[c] = <<>>

C2_Witness ==
    \E c \in Conns :
        /\ obs[c].done /\ obs[c].req.op = OpCode.BACKUP /\ obs[c].req.name = Name.a
        /\ Len(obs[c].req.data) = 2 * CHUNK_SIZE + 1
        /\ out[c] = ExpectedFull(StatusCode.GENERAL_SUCCESS, Name.a)
        /\ fsys[StoredAt(1, Name.a)].data = obs[c].req.data

\* C3: a RESTORE of a name whose last BACKUP was answered GENERAL_SUCCESS,
\* with no DELETE or BACKUP of that file since, answers RESTORE_SUCCESS with
\* the filename, the length of the payload and the payload.
C3_RestoreReturnsBackup ==
    \A c \in Conns :
        LET r == obs[c].req
            p == FilePath(r.user, r.name)
        IN (Answered(c) /\ Whole(c) /\ r.op = OpCode.RESTORE /\ p \in DOMAIN lastBackup)
             => out[c] = ExpectedStream(StatusCode.RESTORE_SUCCESS, r.name, lastBackup[p])

C3_Witness ==
    \E c \in Conns :
        LET r == obs[c].req
            p == StoredAt(1, Name.a)
        IN /\ Answered(c) /\ r.op = OpCode.RESTORE /\ r.name = Name.a
           /\ p \in DOMAIN lastBackup /\ Len(lastBackup[p]) = 2 * CHUNK_SIZE + 1
           /\ out[c] = ExpectedStream(StatusCode.RESTORE_SUCCESS, Name.a, lastBackup[p])

\* The session never carries a BACKUP of this user for this name.
NeverBackedUp(userId, filename) ==
    \A r \in SessionRequests :
        r.op = OpCode.BACKUP /\ r.user = userId => r.name # filename

\* C4: a RESTORE of a name the user has never backed up (here: a name no
\* BACKUP of that user ever carries, the empty name among them) answers
\* ERROR_NO_FILE with the filename and nothing more, and the session goes on.
C4_RestoreOfUnknownName ==
    \A c \in Conns :
        LET r == obs[c].req
        IN (obs[c].done /\ Whole(c) /\ peer[c] # "reset" /\ r.op = OpCode.RESTORE
              /\ NeverBackedUp(r.user, r.name))
             => /\ out[c] = ExpectedFull(StatusCode.ERROR_NO_FILE, r.name)
                /\ ~obs[c].thrown

\* C5: a DELETE answers GENERAL_SUCCESS with the filename whether or not the
\* file exists, and afterwards nothing exists under that name (so that a
\* second DELETE changes nothing and a RESTORE answers ERROR_NO_FILE).
C5_DeleteIdempotent ==
    \A c \in Conns :
        LET r == obs[c].req
        IN (obs[c].done /\ Whole(c) /\ peer[c] # "reset" /\ r.op = OpCode.DELETE_FILE)
             => /\ out[c] = ExpectedFull(StatusCode.GENERAL_SUCCESS, r.name)
                /\ ~Exists(fsys, FilePath(r.user, r.name))

\* <root>/<userId>
StoredDir(userId) == BASE_BACKUP_PATH \o <<to_string(userId)>>

\* The names of the regular files directly under <root>/<userId>.
StoredNames(fs, userId) ==
    {p[Len(p)] : p \in {q \in DOMAIN fs : /\ Len(q) = Len(StoredDir(userId)) + 1
                                          /\ SubSeq(q, 1, Len(q) - 1) = StoredDir(userId)
                                          /\ fs[q].kind = "file"}}

\* C6: LIST answers the bare header with ERROR_NO_FILES_FOR_CLIENT exactly
\* when the user's directory is absent or holds no regular file; otherwise
\* LIST_SUCCESS with an empty filename, a content-length equal to the length
\* of the content, and a content made of every stored name once, each
\* followed by a newline.
C6_ListAnswers ==
    \A c \in Conns :
        LET r == obs[c].req
            names == StoredNames(fsys, r.user)
            content == Drop(out[c], 9)
            lines == SplitAt(content, Chr.nl, <<>>)
        IN (Answered(c) /\ r.op = OpCode.LIST_FILES)
             => IF names = {}
                THEN out[c] = <<SERVER_VERSION,
                                StatusCode.ERROR_NO_FILES_FOR_CLIENT % 256,
                                StatusCode.ERROR_NO_FILES_FOR_CLIENT \div 256>>
                ELSE /\ Len(out[c]) >= 9
                     /\ Take(out[c], 5) = ExpectedFull(StatusCode.LIST_SUCCESS, <<>>)
                     /\ FromLE(SubSeq(out[c], 6, 9)) = Len(content)
                     /\ lines[Len(lines)] = <<>>
                     /\ Len(lines) - 1 = Cardinality(names)
                     /\ {lines[i] : i \in 1..(Len(lines) - 1)} = names

C6_Witness ==
    \E c \in Conns :
        /\ Answered(c) /\ obs[c].req.op = OpCode.LIST_FILES
        /\ StoredNames(fsys, obs[c].req.user) = {Name.a, Name.b}
        /\ Take(out[c], 3) = Take(ExpectedFull(StatusCode.LIST_SUCCESS, <<>>), 3)

C8_HeaderFailureCloses ==
    [][\A c \in Conns :
         /\ (pc[c] = "header" /\ ReadFails(c, SizeOf.RequestHeader))
              => /\ pc'[c] \in {"header", "closed"}
                 /\ out'[c] = out[c] /\ fsys' = fsys
                 /\ loc'[c] = loc[c] /\ obs'[c] = obs[c]
         /\ pc[c] = "closed"
              => /\ pc'[c] = "closed" /\ out'[c] = out[c] /\ inbuf'[c] = inbuf[c]
                 /\ fsys' = fsys /\ loc'[c] = loc[c]]_vars

C8_Witness ==
    \E c \in Conns :
        /\ pc[c] = "closed" /\ sent[c].len \in 1..(SizeOf.RequestHeader - 1)
        /\ out[c] = <<>> /\ ~obs[c].done

\* Everything at or below <root>/<userId>.
Subtree(fs, userId) ==
    {<<p, fs[p]>> : p \in {q \in DOMAIN fs : IsPrefix(StoredDir(userId), q)}}

\* C9: with one session per user, the subtree of a user changes only in
\* steps of that user's session, every stored file holds bytes of its own
\* user only, and a RESTORE answers with the payload that user stored last.
C9_UsersDoNotCollide ==
    /\ [](\A c \in Conns :
            LET r == obs[c].req
                p == FilePath(r.user, r.name)
            IN /\ \A q \in DOMAIN fsys :
                    IsPrefix(StoredDir(c), q) =>
                        \A i \in 1..Len(fsys[q].data) : fsys[q].data[i] \div 16 = c
               /\ (Answered(c) /\ Whole(c) /\ r.op = OpCode.RESTORE
                     /\ p \in DOMAIN lastBackup)
                    => /\ out[c] = ExpectedStream(StatusCode.RESTORE_SUCCESS, r.name,
                                                  lastBackup[p])
                       /\ lastBackup[p] = Payload(r.user, Len(lastBackup[p])))
    /\ [][\A u \in Conns :
            Subtree(fsys', u) # Subtree(fsys, u)
                => pc'[u] # pc[u] \/ loc'[u] # loc[u]]_vars

C9_Witness ==
    /\ IsRegularFile(fsys, StoredAt(1, Name.a)) /\ IsRegularFile(fsys, StoredAt(2, Name.a))
    /\ fsys[StoredAt(1, Name.a)].data = Payload(1, CHUNK_SIZE + 1)
    /\ fsys[StoredAt(2, Name.a)].data = Payload(2, 1)
    /\ Answered(1) /\ obs[1].req.op = OpCode.RESTORE
    /\ out[1] = ExpectedStream(StatusCode.RESTORE_SUCCESS, Name.a, Payload(1, CHUNK_SIZE + 1))
    /\ pc[2] = "header" /\ obs[2].done /\ obs[2].req.op = OpCode.BACKUP

\* C10: the path a handler has created, probed, opened or is about to
\* remove lies strictly inside <root>/<userId>/.
C10_PathsInsideUserSubtree ==
    \A c \in Conns :
        (pc[c] \in {"copy", "fileSize", "openRead", "stream", "remove"}
           /\ loc[c].op # OpCode.LIST_FILES)
          => /\ IsPrefix(StoredDir(m_userId[c]), loc[c].filePath)
             /\ Len(loc[c].filePath) > Len(StoredDir(m_userId[c]))

\* C11: when a request ends in a failed read, every file of its user whose
\* BACKUP had been answered GENERAL_SUCCESS before that request began still
\* exists with the content stored then.
C11_CompletedBackupSurvives ==
    \A c \in Conns :
        (obs[c].done /\ obs[c].readFail # "none")
          => \A p \in DOMAIN obs[c].before :
                /\ IsRegularFile(fsys, p)
                /\ fsys[p].data = obs[c].before[p]

\* C12: once a read of a handler has failed or the connection is broken, no
\* step puts another byte on the socket and no further request header is
\* read.
C12_TransportFailureIsFatal ==
    [][\A c \in Conns :
         (obs[c].readFail # "none" \/ peer[c] = "reset")
           => /\ out'[c] = out[c]
              /\ pc[c] = "header" => pc'[c] \in {"header", "closed"}]_vars

\* C13: the step of a DELETE that attempts the removal of an existing path
\* leaves the handler with a header+filename response carrying the
\* filename: GENERAL_SUCCESS with the path gone when the removal succeeds,
\* ERROR_GENERAL when it fails; either way the session is back at reading
\* the next header.
C13_DeleteAnswersRemoval ==
    [][\A c \in Conns :
         (pc[c] = "remove" /\ pc'[c] # "remove" /\ peer'[c] # "reset")
           => /\ pc'[c] = "header"
              /\ out'[c] = ExpectedFull(
                    IF RemoveResult(fsys, loc[c].filePath) = "removed"
                    THEN StatusCode.GENERAL_SUCCESS ELSE StatusCode.ERROR_GENERAL,
                    loc[c].filename)
              /\ RemoveResult(fsys, loc[c].filePath) = "removed"
                   => ~Exists(fsys', loc[c].filePath)]_vars

\* C14: a BACKUP of a plain filename is answered GENERAL_SUCCESS only when
\* the stored file holds every byte of the payload, and a BACKUP that leaves
\* its copy loop with a failed write is answered ERROR_GENERAL.
C14_WriteFailureAnswered ==
    /\ [](\A c \in Conns :
            LET r == obs[c].req
            IN (obs[c].done /\ r.op = OpCode.BACKUP /\ r.name \in PlainNames
                  /\ out[c] = ExpectedFull(StatusCode.GENERAL_SUCCESS, r.name))
                 => /\ IsRegularFile(fsys, StoredAt(r.user, r.name))
                    /\ fsys[StoredAt(r.user, r.name)].data = r.data)
    /\ [][\A c \in Conns :
            (pc[c] = "copy" /\ loc[c].bad /\ pc'[c] = "header"
               /\ obs'[c].readFail = "none" /\ peer'[c] # "reset")
              => out'[c] = ExpectedFull(StatusCode.ERROR_GENERAL, loc[c].filename)]_vars

\* C15: a BACKUP of a plain filename (its destination opens) whose payload
\* read fails leaves no file under that name, has sent nothing, and leaves
\* the session where only the failing header read that closes it remains:
\* no request can follow.
C15_PartialFileRemoved ==
    \A c \in Conns :
        LET r == obs[c].req
        IN (obs[c].done /\ r.op = OpCode.BACKUP /\ r.name \in PlainNames
              /\ obs[c].readFail = "payload")
             => /\ ~Exists(fsys, StoredAt(r.user, r.name))
                /\ out[c] = <<>> /\ obs[c].calls = 0
                /\ pc[c] \in {"header", "closed"}
                /\ peer[c] # "open" /\ inbuf[c] = <<>>

C15_Witness ==
    \E c \in Conns :
        /\ pc[c] = "closed" /\ obs[c].done /\ obs[c].readFail = "payload"
        /\ obs[c].req.op = OpCode.BACKUP /\ obs[c].req.name = Name.a
        /\ Len(obs[c].req.data) = 2 * CHUNK_SIZE + 1
        /\ obs[c].consumed = Len(EncodeRequest(obs[c].req)) - 1
        /\ ~Exists(fsys, StoredAt(1, Name.a))

\* C16: a BACKUP with the empty filename (its destination, the user's
\* directory, cannot be opened for writing) that is answered ERROR_GENERAL
\* with the filename has read exactly the bytes of the request, payload
\* included, leaves nothing unread before the next header, and has created
\* or changed no regular file; no read of the drain loop asks for more than
\* a chunk.
C16_DrainKeepsFraming ==
    \A c \in Conns :
        LET r == obs[c].req
        IN /\ pc[c] = "drain" => DrainBytesToRead(loc[c].count) <= CHUNK_SIZE
           /\ (obs[c].done /\ r.op = OpCode.BACKUP /\ r.name = Name.empty
                 /\ out[c] = ExpectedFull(StatusCode.ERROR_GENERAL, r.name))
                => /\ obs[c].consumed = Len(EncodeRequest(r))
                   /\ inbuf[c] = <<>>
                   /\ \A p \in DOMAIN fsys :
                        IsRegularFile(fsys, p)
                          => p \in DOMAIN obs[c].before /\ fsys[p].data = obs[c].before[p]

\* C17: in a RESTORE_SUCCESS response the content-length field is the exact
\* size of the file: the file has fewer than 2^32 bytes and the field holds
\* their number.
C17_ContentLengthIsFileSize ==
    \A c \in Conns :
        LET r == obs[c].req
            p == FilePath(r.user, r.name)
            head == ExpectedFull(StatusCode.RESTORE_SUCCESS, r.name)
        IN (Answered(c) /\ r.op = OpCode.RESTORE /\ Len(out[c]) >= Len(head) + SizeOf.u32
              /\ Take(out[c], Len(head)) = head)
             => /\ IsRegularFile(fsys, p)
                /\ fsys[p].high = 0
                /\ FromLE(SubSeq(out[c], Len(head) + 1, Len(head) + SizeOf.u32))
                     = Len(fsys[p].data)

\* C18: a session whose peer has disconnected eventually closes; the copy,
\* drain and streaming loops are eventually left; and the session closes
\* only when the transport has terminated (the peer is no longer open).
C18_RunsUntilTransportEnds ==
    /\ \A c \in Conns :
         (pc[c] \notin {"none", "closed"} /\ peer[c] # "open") ~> (pc[c] = "closed")
    /\ \A c \in Conns :
         (pc[c] \in {"copy", "drain", "stream"}) ~> (pc[c] \in {"header", "closed"})
    /\ [][\A c \in Conns :
            (pc[c] # "closed" /\ pc'[c] = "closed") => peer[c] # "open"]_vars

\* C19: a RESTORE_SUCCESS or LIST_SUCCESS response that was written to its
\* end without a failed send carries, after its content-length field, as
\* many content bytes as the field says.
C19_ContentMatchesLength ==
    \A c \in Conns :
        LET r == obs[c].req
            status == IF r.op = OpCode.RESTORE THEN StatusCode.RESTORE_SUCCESS
                      ELSE StatusCode.LIST_SUCCESS
            head == ExpectedFull(status, r.name)
            fixed == Len(head) + SizeOf.u32
        IN (Answered(c) /\ r.op \in {OpCode.RESTORE, OpCode.LIST_FILES}
              /\ Len(out[c]) >= fixed /\ Take(out[c], Len(head)) = head)
             => Len(out[c]) - fixed = FromLE(SubSeq(out[c], Len(head) + 1, fixed))

\* C20: when the last request of each of the two connections is a BACKUP of
\* the same file and both were answered GENERAL_SUCCESS, the file exists
\* and holds the payload of one of them.
C20_LastWriterWins ==
    (\A c \in Conns :
        /\ obs[c].done /\ obs[c].req.op = OpCode.BACKUP
        /\ obs[c].req.user = 1 /\ obs[c].req.name = Name.a
        /\ out[c] = ExpectedFull(StatusCode.GENERAL_SUCCESS, Name.a))
      => /\ IsRegularFile(fsys, StoredAt(1, Name.a))
         /\ \E c \in Conns : fsys[StoredAt(1, Name.a)].data = obs[c].req.data

=============================================================================
